---- MODULE Spec2Model ----
(***************************************************************************)
(* sqlx-db-cli: schema introspection and type mapping.                     *)
(*                                                                         *)
(* Rust strings are modelled as sequences of one-character strings, so     *)
(* that to_uppercase, contains, split, join and the regular expression of  *)
(* sqlite_type are computed character by character.  An Option<T> is a     *)
(* sequence of length at most one: None is << >>, Some(x) is << x >>.      *)
(***************************************************************************)
EXTENDS Integers, Sequences, FiniteSets, TLC

VARIABLES
    call,            \* the last call of a pure function or of a From conversion
    driver,          \* Generator.driver
    table_names,     \* Generator.table_names, the raw -t argument
    catalog,         \* the database behind the connection
    pc,              \* position of Generator::generator
    tables,          \* let tables (lib.rs 213)
    tables_columns,  \* let tables_columns (lib.rs 213)
    table_map,       \* let table_map (lib.rs 244)
    table_column_map,\* let table_column_map (lib.rs 249)
    connected,       \* whether the pool of lib.rs 215/221/227 exists
    queries,         \* the statements sent to the database, in order
    dir_created,     \* whether fs::create_dir_all(&self.path) was done
    files,           \* the files written, in order
    printed,         \* the progress lines printed after the start banner
    result           \* what generator() returned

pipeline_vars == <<driver, table_names, catalog, pc, tables, tables_columns,
                   table_map, table_column_map, connected, queries,
                   dir_created, files, printed, result>>

vars == <<call, pipeline_vars>>

----------------------------------------------------------------------------
(* Strings                                                                 *)

None == << >>
Some(x) == << x >>

LowerChars == <<"a","b","c","d","e","f","g","h","i","j","k","l","m",
                "n","o","p","q","r","s","t","u","v","w","x","y","z">>
UpperChars == <<"A","B","C","D","E","F","G","H","I","J","K","L","M",
                "N","O","P","Q","R","S","T","U","V","W","X","Y","Z">>

\* char::to_uppercase on the ASCII range
UpperChar(c) ==
    IF \E i \in 1..26 : LowerChars[i] = c
    THEN UpperChars[CHOOSE i \in 1..26 : LowerChars[i] = c]
    ELSE c

\* str::to_uppercase
to_uppercase(s) == [i \in 1..Len(s) |-> UpperChar(s[i])]

\* str::contains(&str): pat occurs in s as a contiguous substring
contains_str(s, pat) ==
    \E i \in 1..(Len(s) - Len(pat) + 1) : SubSeq(s, i, i + Len(pat) - 1) = pat

\* str::contains(|c| c == '_' || c == '-'): scan of the characters, left to right
RECURSIVE contains_underscore_or_hyphen(_)
contains_underscore_or_hyphen(s) ==
    IF s = << >> THEN FALSE
    ELSE IF Head(s) = "_" \/ Head(s) = "-" THEN TRUE
    ELSE contains_underscore_or_hyphen(Tail(s))

\* [String]::join(sep)
RECURSIVE join(_, _)
join(ss, sep) ==
    IF ss = << >> THEN << >>
    ELSE IF Len(ss) = 1 THEN ss[1]
    ELSE ss[1] \o sep \o join(Tail(ss), sep)

\* str::split(sep) for a one-character separator: always at least one piece
RECURSIVE split(_, _)
split(s, sep) ==
    IF \E i \in 1..Len(s) : s[i] = sep
    THEN LET i == CHOOSE k \in 1..Len(s) :
                      s[k] = sep /\ \A j \in 1..(k - 1) : s[j] # sep
         IN  <<SubSeq(s, 1, i - 1)>> \o split(SubSeq(s, i + 1, Len(s)), sep)
    ELSE <<s>>

\* Iterator::filter(p).collect::<Vec<_>>() with p = |t| !t.is_empty()
RECURSIVE filter_non_empty(_)
filter_non_empty(ss) ==
    IF ss = << >> THEN << >>
    ELSE IF Head(ss) = << >> THEN filter_non_empty(Tail(ss))
    ELSE <<Head(ss)>> \o filter_non_empty(Tail(ss))

----------------------------------------------------------------------------
(* Identifier policy (lib.rs)                                              *)

KEYWORDS == {
    <<"a","s">>, <<"a","s","y","n","c">>, <<"a","w","a","i","t">>, <<"b","r","e","a","k">>, <<"c","o","n","s","t">>, <<"c","o","n","t","i","n","u","e">>, <<"c","r","a","t","e">>,
    <<"d","y","n">>, <<"e","l","s","e">>, <<"e","n","u","m">>, <<"e","x","t","e","r","n">>, <<"f","a","l","s","e">>, <<"f","n">>, <<"f","o","r">>, <<"i","f">>,
    <<"i","m","p","l">>, <<"i","n">>, <<"l","e","t">>, <<"l","o","o","p">>, <<"m","a","t","c","h">>, <<"m","o","d">>, <<"m","o","v","e">>, <<"m","u","t">>,
    <<"p","u","b">>, <<"r","e","f">>, <<"r","e","t","u","r","n">>, <<"S","e","l","f">>, <<"s","e","l","f">>, <<"s","t","a","t","i","c">>, <<"s","t","r","u","c","t">>,
    <<"s","u","p","e","r">>, <<"t","r","a","i","t">>, <<"t","r","u","e">>, <<"t","y","p","e">>, <<"u","n","i","o","n">>, <<"u","n","s","a","f","e">>, <<"u","s","e">>,
    <<"w","h","e","r","e">>, <<"w","h","i","l","e">>, <<"a","b","s","t","r","a","c","t">>, <<"b","e","c","o","m","e">>, <<"b","o","x">>, <<"d","o">>, <<"f","i","n","a","l">>,
    <<"m","a","c","r","o">>, <<"o","v","e","r","r","i","d","e">>, <<"p","r","i","v">>, <<"t","r","y">>, <<"t","y","p","e","o","f">>, <<"u","n","s","i","z","e","d">>,
    <<"v","i","r","t","u","a","l">>, <<"y","i","e","l","d">> }

\* multi_world looking for the underscore alone
multi_world_underscore_only(name) == \E i \in 1..Len(name) : name[i] = "_"

\* pub fn multi_world(name: &str) -> bool
multi_world(name) == contains_underscore_or_hyphen(name)

\* column_keywords comparing without regard to letter case
column_keywords_ignoring_case(name) ==
    IF \E k \in KEYWORDS : to_uppercase(k) = to_uppercase(name)
    THEN <<"r","#">> \o name ELSE name

\* pub fn column_keywords(name: &str) -> String
column_keywords(name) ==
    IF name \in KEYWORDS THEN <<"r","#">> \o name ELSE name

----------------------------------------------------------------------------
(* Type mapping tables                                                     *)

\* the match of mysql_to_rust, on the upper-cased text u
mysql_match(u) ==
        CASE u \in {<<"T","I","N","Y","I","N","T","(","1",")">>, <<"B","O","O","L","E","A","N">>} -> <<"b","o","o","l">>
          [] u = <<"T","I","N","Y","I","N","T">> -> <<"i","8">>
          [] u \in {<<"T","I","N","Y","I","N","T"," ","U","N","S","I","G","N","E","D">>, <<"B","I","T">>} -> <<"u","8">>
          [] u = <<"S","M","A","L","L","I","N","T">> -> <<"i","1","6">>
          [] u = <<"S","M","A","L","L","I","N","T"," ","U","N","S","I","G","N","E","D">> -> <<"u","1","6">>
          [] u \in {<<"I","N","T">>, <<"M","E","D","I","U","M","I","N","T">>} -> <<"i","3","2">>
          [] u \in {<<"I","N","T"," ","U","N","S","I","G","N","E","D">>, <<"M","E","D","I","U","M","I","N","T"," ","U","N","S","I","G","N","E","D">>} -> <<"u","3","2">>
          [] u = <<"B","I","G","I","N","T">> -> <<"i","6","4">>
          [] u = <<"B","I","G","I","N","T"," ","U","N","S","I","G","N","E","D">> -> <<"u","6","4">>
          [] u = <<"F","L","O","A","T">> -> <<"f","3","2">>
          [] u \in {<<"D","O","U","B","L","E">>, <<"N","U","M","E","R","I","C">>} -> <<"f","6","4">>
          [] u \in {<<"V","A","R","B","I","N","A","R","Y">>, <<"B","I","N","A","R","Y">>, <<"B","L","O","B">>} -> <<"V","e","c","<","u","8",">">>
          [] u = <<"Y","E","A","R">> -> <<"t","i","m","e",":",":","D","a","t","e">>
          [] u = <<"D","A","T","E">> -> <<"t","i","m","e",":",":","D","a","t","e">>
          [] u = <<"T","I","M","E">> -> <<"t","i","m","e",":",":","T","i","m","e">>
          [] u = <<"D","A","T","E","T","I","M","E">> -> <<"t","i","m","e",":",":","P","r","i","m","i","t","i","v","e","D","a","t","e","T","i","m","e">>
          [] u = <<"T","I","M","E","S","T","A","M","P">> -> <<"t","i","m","e",":",":","o","f","f","s","e","t","D","a","t","e","T","i","m","e">>
          [] u = <<"D","E","C","I","M","A","L">> -> <<"b","i","g","d","e","c","i","m","a","l",":",":","B","i","g","D","e","c","i","m","a","l">>
          [] u = <<"J","S","O","N">> -> <<"s","e","r","d","e","_","j","s","o","n",":","J","s","o","n","V","a","l","u","e">>
          [] OTHER -> <<"S","t","r","i","n","g">>

\* mysql_to_rust matching the text as given
mysql_to_rust_no_uppercase(ty) == mysql_match(ty)

\* fn mysql_to_rust(ty: &str) -> &str
mysql_to_rust(ty) == mysql_match(to_uppercase(ty))

\* the match of pg_to_rust, on the upper-cased text u
pg_match(u) ==
        CASE u = <<"B","O","O","L">> -> <<"b","o","o","l">>
          [] u = <<"C","H","A","R">> -> <<"i","8">>
          [] u \in {<<"S","M","A","L","L","I","N","T">>, <<"S","M","A","L","L","S","E","R","I","A","L">>, <<"I","N","T","2">>} -> <<"i","1","6">>
          [] u \in {<<"I","N","T">>, <<"S","E","R","I","A","L">>, <<"I","N","T","4">>} -> <<"i","3","2">>
          [] u \in {<<"B","I","G","I","N","T">>, <<"B","I","G","S","E","R","I","A","L">>, <<"I","N","T","8">>} -> <<"i","6","4">>
          [] u \in {<<"R","E","A","L">>, <<"F","L","O","A","T","4">>} -> <<"f","3","2">>
          [] u \in {<<"D","O","U","B","L","E"," ","P","R","E","C","I","S","I","O","N">>, <<"F","L","O","A","T","8">>} -> <<"f","6","4">>
          [] u = <<"B","Y","T","E","A">> -> <<"V","e","c","<","u","8",">">>
          [] u = <<"V","O","I","D">> -> <<"(",")">>
          [] u = <<"I","N","T","E","R","V","A","L">> -> <<"s","q","l","x","_","p","o","s","t","g","r","e","s",":",":","t","y","p","e","s",":",":","P","g","I","n","t","e","r","v","a","l">>
          [] u \in {<<"I","N","T","8","R","A","N","G","E">>, <<"I","N","T","4","R","A","N","G","E">>, <<"T","S","R","A","N","G","E">>, <<"T","S","T","Z","R","A","N","G","E">>,
                    <<"D","A","T","E","R","A","N","G","E">>, <<"N","U","M","R","A","N","G","E">>}
                -> <<"s","q","l","x","_","p","o","s","t","g","r","e","s",":",":","t","y","p","e","s",":",":","P","g","R","a","n","g","e","<","T",">"," ">>
          [] u = <<"M","O","N","E","Y">> -> <<"s","q","l","x","_","p","o","s","t","g","r","e","s",":",":","t","y","p","e","s",":",":","P","g","M","o","n","e","y">>
          [] u = <<"L","T","R","E","E">> -> <<"s","q","l","x","_","p","o","s","t","g","r","e","s",":",":","t","y","p","e","s",":",":","P","g","L","T","r","e","e">>
          [] u = <<"L","Q","U","E","R","Y">> -> <<"s","q","l","x","_","p","o","s","t","g","r","e","s",":",":","t","y","p","e","s",":",":","P","g","L","Q","u","e","r","y">>
          [] u = <<"Y","E","A","R">> -> <<"t","i","m","e",":",":","D","a","t","e">>
          [] u = <<"D","A","T","E">> -> <<"t","i","m","e",":",":","D","a","t","e">>
          [] u = <<"T","I","M","E">> -> <<"t","i","m","e",":",":","T","i","m","e">>
          [] u = <<"T","I","M","E","S","T","A","M","P">> -> <<"t","i","m","e",":",":","P","r","i","m","i","t","i","v","e","D","a","t","e","T","i","m","e">>
          [] u = <<"T","I","M","E","S","T","A","M","P","T","Z">> -> <<"t","i","m","e",":",":","O","f","f","s","e","t","D","a","t","e","T","i","m","e">>
          [] u = <<"T","I","M","E","T","Z">> -> <<"s","q","l","x","_","p","o","s","t","g","r","e","s",":",":","t","y","p","e","s",":",":","P","g","T","i","m","e","T","z">>
          [] u = <<"N","U","M","E","R","I","C">> -> <<"b","i","g","d","e","c","i","m","a","l",":",":","B","i","g","D","e","c","i","m","a","l">>
          [] u \in {<<"J","S","O","N">>, <<"J","S","O","N","B">>} -> <<"s","e","r","d","e","_","j","s","o","n",":","J","s","o","n","V","a","l","u","e">>
          [] u = <<"U","U","I","D">> -> <<"u","u","i","d",":",":","U","u","i","d">>
          [] u \in {<<"I","N","E","T">>, <<"C","I","D","R">>} -> <<"s","t","d",":",":","n","e","t",":",":","I","p","A","d","d","r">>
          [] u = <<"M","A","C","A","D","D","R">> -> <<"m","a","c","_","a","d","d","r","e","s","s",":",":","M","a","c","A","d","d","r","e","s","s">>
          [] u \in {<<"B","I","T">>, <<"V","A","R","B","I","T">>} -> <<"b","i","t","_","v","e","c",":",":","B","i","t","V","e","c">>
          [] OTHER -> <<"S","t","r","i","n","g">>

\* fn pg_to_rust(ty: &str) -> &str
pg_to_rust(ty) == pg_match(to_uppercase(ty))

\* sqlite_match with TEXT as an arm of its own and no "String" wildcard
sqlite_match_no_wildcard(u) ==
        CASE u = <<"B","O","O","L","E","A","N">> -> <<"b","o","o","l">>
          [] u = <<"I","N","T","E","G","E","R">> -> <<"i","3","2">>
          [] u \in {<<"B","I","G","I","N","T">>, <<"I","N","T","8">>} -> <<"i","6","4">>
          [] u = <<"R","E","A","L">> -> <<"f","6","4">>
          [] u = <<"B","L","O","B">> -> <<"V","e","c","<","u","8",">">>
          [] u = <<"D","A","T","E">> -> <<"t","i","m","e",":",":","D","a","t","e">>
          [] u = <<"T","I","M","E">> -> <<"t","i","m","e",":",":","T","i","m","e">>
          [] u = <<"D","A","T","E","T","I","M","E">> -> <<"t","i","m","e",":",":","O","f","f","s","e","t","D","a","t","e","T","i","m","e">>
          [] u = <<"T","E","X","T">> -> <<"S","t","r","i","n","g">>
          [] OTHER -> <<>>

\* the match of sqlite_to_rust, on the upper-cased text u
sqlite_match(u) ==
        CASE u = <<"B","O","O","L","E","A","N">> -> <<"b","o","o","l">>
          [] u = <<"I","N","T","E","G","E","R">> -> <<"i","3","2">>
          [] u \in {<<"B","I","G","I","N","T">>, <<"I","N","T","8">>} -> <<"i","6","4">>
          [] u = <<"R","E","A","L">> -> <<"f","6","4">>
          [] u = <<"B","L","O","B">> -> <<"V","e","c","<","u","8",">">>
          [] u = <<"D","A","T","E">> -> <<"t","i","m","e",":",":","D","a","t","e">>
          [] u = <<"T","I","M","E">> -> <<"t","i","m","e",":",":","T","i","m","e">>
          [] u = <<"D","A","T","E","T","I","M","E">> -> <<"t","i","m","e",":",":","O","f","f","s","e","t","D","a","t","e","T","i","m","e">>
          [] OTHER -> <<"S","t","r","i","n","g">>

\* sqlite_to_rust looking the text up in the Postgres table
sqlite_to_rust_shared_table(ty) == pg_match(to_uppercase(ty))

\* fn sqlite_to_rust(ty: &str) -> &str
sqlite_to_rust(ty) == sqlite_match(to_uppercase(ty))

Digits == <<"0","1","2","3","4","5","6","7","8","9">>
IsDigit(c) == \E d \in 1..10 : Digits[d] = c
DigitValue(c) == (CHOOSE d \in 1..10 : Digits[d] = c) - 1

U16_MAX == 65535

\* str::parse::<u16>().unwrap_or(0) on a non-empty run of ASCII digits
RECURSIVE parse_u16_from(_, _)
parse_u16_from(ds, acc) ==
    IF ds = << >> THEN acc
    ELSE LET n == acc * 10 + DigitValue(Head(ds))
         IN  IF n > U16_MAX THEN -1 ELSE parse_u16_from(Tail(ds), n)
parse_u16_or_0(ds) ==
    LET n == parse_u16_from(ds, 0) IN IF n < 0 THEN 0 ELSE n

\* fn sqlite_type(t: &str) -> (String, Option<u16>)
\* Regex ^(.*)\((\d+)\)$ : the text ends with "(", one or more digits, ")".
sqlite_type(t) ==
    LET n == Len(t)
        opens == { i \in 1..(n - 2) :
                     /\ t[i] = "("
                     /\ t[n] = ")"
                     /\ \A j \in (i + 1)..(n - 1) : IsDigit(t[j]) }
    IN  IF opens # {}
        THEN LET i == CHOOSE k \in opens : TRUE
             IN  <<SubSeq(t, 1, i - 1), Some(parse_u16_or_0(SubSeq(t, i + 1, n - 1)))>>
        ELSE <<t, None>>

----------------------------------------------------------------------------
(* Row conversions                                                         *)

unwrap(o) == o[1]
unwrap_or_default(o) == IF o = None THEN << >> ELSE o[1]

\* mysql.rs: impl From<Table> for super::Table
mysql_from_Table(t) ==
    [schema |-> t.table_schema, name |-> t.table_name, comment |-> t.table_comment]

\* the mysql conversion setting is_nullable to "Yes" for every column
mysql_from_TableColumn_always_nullable(c) ==
    LET ty == mysql_to_rust(to_uppercase(unwrap_or_default(c.column_type)))
    IN  [schema |-> c.table_schema,
         table_name |-> c.table_name,
         name |-> Some(column_keywords(unwrap(c.column_name))),
         default |-> c.column_default,
         is_nullable |-> Some(<<"Y","e","s">>),
         column_type |-> c.column_type,
         comment |-> c.column_comment,
         field_type |-> Some(ty),
         multi_world |-> Some(contains_underscore_or_hyphen(unwrap(c.column_name))),
         max_length |-> c.character_maximum_length]

\* mysql.rs: impl From<TableColumn> for super::TableColumn
mysql_from_TableColumn(c) ==
    LET ty == mysql_to_rust(to_uppercase(unwrap_or_default(c.column_type)))
    IN  [schema |-> c.table_schema,
         table_name |-> c.table_name,
         name |-> Some(column_keywords(unwrap(c.column_name))),
         default |-> c.column_default,
         is_nullable |-> IF contains_str(ty, <<"T","i","m","e">>) THEN Some(<<"Y","e","s">>)
                         ELSE c.is_nullable,
         column_type |-> c.column_type,
         comment |-> c.column_comment,
         field_type |-> Some(ty),
         multi_world |-> Some(contains_underscore_or_hyphen(unwrap(c.column_name))),
         max_length |-> c.character_maximum_length]

\* postgres.rs: impl From<Table> for super::Table
postgres_from_Table(t) ==
    [schema |-> t.table_schema, name |-> t.table_name, comment |-> t.table_name]

\* postgres.rs: impl From<TableColumn> for super::Column
postgres_from_TableColumn(c) ==
    LET ty == pg_to_rust(to_uppercase(c.data_type))
    IN  [schema |-> Some(c.table_schema),
         table_name |-> Some(c.table_name),
         name |-> Some(column_keywords(c.column_name)),
         default |-> c.column_default,
         is_nullable |-> IF contains_str(ty, <<"T","i","m","e">>) THEN Some(<<"Y","e","s">>)
                         ELSE Some(c.is_nullable),
         column_type |-> Some(c.data_type),
         comment |-> Some(<<>>),
         field_type |-> Some(ty),
         multi_world |-> Some(contains_underscore_or_hyphen(c.column_name)),
         max_length |-> IF c.character_maximum_length # None
                        THEN Some(unwrap(c.character_maximum_length))
                        ELSE Some(50)]

\* sqlite.rs: impl From<Table> for super::Table (and From<&Table>)
sqlite_from_Table(t) ==
    [schema |-> <<>>, name |-> t.name, comment |-> <<>>]

\* the is_nullable block of both sqlite conversions
sqlite_is_nullable(notnull) ==
    IF notnull # None
    THEN IF unwrap(notnull) = 1 THEN Some(<<"N","o","t","N","u","l","l">>) ELSE Some(<<"N","u","l","l">>)
    ELSE None

\* sqlite.rs: impl From<TableColumn> for super::TableColumn
sqlite_from_TableColumn(col) ==
    LET ty == sqlite_type(unwrap(col.type))
    IN  [schema |-> None,
         table_name |-> None,
         name |-> Some(column_keywords(unwrap(col.name))),
         default |-> col.dflt_value,
         is_nullable |-> sqlite_is_nullable(col.notnull),
         column_type |-> col.type,
         comment |-> None,
         field_type |-> Some(sqlite_to_rust(ty[1])),
         multi_world |-> Some(multi_world(unwrap(col.name))),
         max_length |-> None]

\* sqlite.rs: impl From<&TableColumn> for super::TableColumn
sqlite_from_TableColumn_ref(col) ==
    LET ty == sqlite_type(unwrap(col.type))
    IN  [schema |-> None,
         table_name |-> None,
         name |-> Some(column_keywords(unwrap(col.name))),
         default |-> col.dflt_value,
         is_nullable |-> sqlite_is_nullable(col.notnull),
         column_type |-> col.type,
         comment |-> col.name,
         field_type |-> Some(sqlite_to_rust(ty[1])),
         multi_world |-> Some(multi_world(unwrap(col.name))),
         max_length |-> Some(255)]

----------------------------------------------------------------------------
(* The database: a catalog is the sequence of its tables, in the order in  *)
(* which the engine lists them (creation time, root page).  A column       *)
(* carries the native type text each engine's catalog reports for it.      *)

Drivers == {"Sqlite", "Mysql", "Postgres"}

Native(m, p, s) == [Mysql |-> m, Postgres |-> p, Sqlite |-> s]

CatColumn(name, native, notnull, len) ==
    [name |-> name, native |-> native, notnull |-> notnull,
     default |-> None, max_length |-> len]

T_int       == Native(<<"i","n","t">>, <<"i","n","t","e","g","e","r">>, <<"I","N","T","E","G","E","R">>)
T_bigint    == Native(<<"b","i","g","i","n","t">>, <<"b","i","g","i","n","t">>, <<"B","I","G","I","N","T">>)
T_varchar   == Native(<<"v","a","r","c","h","a","r","(","5","0",")">>, <<"c","h","a","r","a","c","t","e","r"," ","v","a","r","y","i","n","g">>, <<"V","A","R","C","H","A","R","(","5","0",")">>)
T_text      == Native(<<"t","e","x","t">>, <<"t","e","x","t">>, <<"T","E","X","T">>)
T_date      == Native(<<"d","a","t","e">>, <<"d","a","t","e">>, <<"D","A","T","E">>)
T_datetime  == Native(<<"d","a","t","e","t","i","m","e">>, <<"t","i","m","e","s","t","a","m","p"," ","w","i","t","h","o","u","t"," ","t","i","m","e"," ","z","o","n","e">>, <<"D","A","T","E","T","I","M","E">>)

AllTables == <<
    [name |-> <<"u","s","e","r","s">>, comment |-> <<>>,
     columns |-> << CatColumn(<<"i","d">>, T_int, TRUE, None),
                    CatColumn(<<"c","r","e","a","t","e","d","_","a","t">>, T_datetime, TRUE, None) >>],
    [name |-> <<"o","r","d","e","r","s">>, comment |-> <<>>,
     columns |-> << CatColumn(<<"i","d">>, T_bigint, TRUE, None),
                    CatColumn(<<"t","y","p","e">>, T_varchar, FALSE, Some(50)) >>],
    [name |-> <<"U","s","e","r","s">>, comment |-> <<>>,
     columns |-> << CatColumn(<<"b","i","r","t","h","-","d","a","y">>, T_date, TRUE, None) >>],
    [name |-> <<"u","s","e","r","s",",","o","r","d","e","r","s">>, comment |-> <<>>,
     columns |-> << CatColumn(<<"i","d">>, T_int, TRUE, None) >>],
    [name |-> <<"i","t","e","m","s">>, comment |-> <<>>,
     columns |-> << CatColumn(<<"n","a","m","e">>, T_text, FALSE, None) >>],
    [name |-> <<"l","o","g","s">>, comment |-> <<>>,
     columns |-> << CatColumn(<<"a","t">>, T_date, FALSE, None) >>] >>

MaxTables == 5
MaxFilter == 2

Min(a, b) == IF a < b THEN a ELSE b

Catalogs == { SubSeq(AllTables, 1, n) : n \in 0..Min(MaxTables, Len(AllTables)) }

FilterNames == { <<"u","s","e","r","s">>, <<"o","r","d","e","r","s">>, <<"U","s","e","r","s">>, <<"n","o","p","e">>, <<>> }

\* the values of the -t argument: up to MaxFilter names joined by commas
ConfigInputs ==
    { join(ns, <<",">>) : ns \in UNION { [1..k -> FilterNames] : k \in 0..MaxFilter } }

DATABASE == <<"t","e","s","t">>

MapSeq(s, F(_)) == [i \in 1..Len(s) |-> F(s[i])]

RECURSIVE Flatten(_)
Flatten(ss) == IF ss = << >> THEN << >> ELSE Head(ss) \o Flatten(Tail(ss))

\* a row of information_schema.TABLES (MySQL)
mysql_table_row(t) ==
    [table_schema |-> DATABASE, table_name |-> t.name, table_comment |-> t.comment]

\* a row of information_schema.COLUMNS (MySQL)
mysql_column_row(t, c) ==
    [table_schema |-> Some(DATABASE),
     table_name |-> Some(t.name),
     column_name |-> Some(c.name),
     column_default |-> c.default,
     is_nullable |-> Some(IF c.notnull THEN <<"N","O">> ELSE <<"Y","E","S">>),
     column_type |-> Some(c.native.Mysql),
     column_comment |-> Some(<<>>),
     character_maximum_length |-> c.max_length]

\* a row of information_schema.tables (Postgres)
postgres_table_row(t) ==
    [table_catalog |-> DATABASE, table_schema |-> <<"p","u","b","l","i","c">>, table_name |-> t.name]

\* a row of information_schema.columns (Postgres)
postgres_column_row(t, c) ==
    [table_schema |-> <<"p","u","b","l","i","c">>,
     table_name |-> t.name,
     column_name |-> c.name,
     column_default |-> c.default,
     is_nullable |-> IF c.notnull THEN <<"N","O">> ELSE <<"Y","E","S">>,
     data_type |-> c.native.Postgres,
     character_maximum_length |-> c.max_length]

\* a row of sqlite_master with type = 'table'
sqlite_table_row(t) == [name |-> t.name]

\* a row of pragma table_info
sqlite_column_row(c) ==
    [name |-> Some(c.name),
     type |-> Some(c.native.Sqlite),
     notnull |-> Some(IF c.notnull THEN 1 ELSE 0),
     dflt_value |-> c.default]

\* MySQL FIND_IN_SET(str, strlist): the position of str among the
\* comma-separated items of strlist, 0 when it is none of them
FIND_IN_SET(str, strlist) ==
    LET items == split(strlist, ",")
    IN  IF \E i \in 1..Len(items) : items[i] = str
        THEN CHOOSE i \in 1..Len(items) :
                 items[i] = str /\ \A j \in 1..(i - 1) : items[j] # str
        ELSE 0

----------------------------------------------------------------------------
(* Dialect adapters.  Each returns the statements it sends and, when the   *)
(* engine accepts them, the converted rows.                                *)

\* mysql.rs: Mysql::tables
mysql_tables(cat, names) ==
    LET lit == join(names, <<",">>)
        keep(t) == names = << >> \/ FIND_IN_SET(t.name, lit) > 0
        conv(t) == mysql_from_Table(mysql_table_row(t))
    IN  [ok |-> TRUE,
         stmts |-> << [q |-> "tables", arg |-> lit] >>,
         rows |-> MapSeq(SelectSeq(cat, keep), conv)]

\* mysql.rs: Mysql::columns; ORDER BY ORDINAL_POSITION puts the first columns
\* of all the tables before their second columns
mysql_columns(cat, names) ==
    LET lit == join(names, <<",">>)
        keep(t) == names = << >> \/ FIND_IN_SET(t.name, lit) > 0
        kept == SelectSeq(cat, keep)
        width == IF kept = << >> THEN 0
                 ELSE CHOOSE n \in { Len(kept[i].columns) : i \in 1..Len(kept) } :
                          \A i \in 1..Len(kept) : Len(kept[i].columns) <= n
        at(p) == LET has(t) == Len(t.columns) >= p
                     conv(t) == mysql_from_TableColumn(mysql_column_row(t, t.columns[p]))
                 IN  MapSeq(SelectSeq(kept, has), conv)
    IN  [ok |-> TRUE,
         stmts |-> << [q |-> "columns", arg |-> lit] >>,
         rows |-> Flatten([p \in 1..width |-> at(p)])]

\* postgres.rs: tables; the names are joined inside ONE quoted literal,
\* table_name in ('a,b')
postgres_tables(cat, names) ==
    LET lit == join(names, <<",">>)
        keep(t) == names = << >> \/ t.name = lit
        conv(t) == postgres_from_Table(postgres_table_row(t))
    IN  [ok |-> TRUE,
         stmts |-> << [q |-> "tables", arg |-> lit] >>,
         rows |-> MapSeq(SelectSeq(cat, keep), conv)]

\* postgres.rs: columns
postgres_columns(cat, names) ==
    LET lit == join(names, <<",">>)
        keep(t) == names = << >> \/ t.name = lit
        of(t) == LET conv(c) == postgres_from_TableColumn(postgres_column_row(t, c))
                 IN  MapSeq(t.columns, conv)
    IN  [ok |-> TRUE,
         stmts |-> << [q |-> "columns", arg |-> lit] >>,
         rows |-> Flatten(MapSeq(SelectSeq(cat, keep), of))]

\* sqlite.rs: Sqlite::tables.  With names the list of "OR name = .." terms is
\* built and dropped, and the text sent is
\*   .. WHERE type = 'table' AND (1 = 2AND FIND_IN_SET(TABLE_NAME, a,b))ORDER by rootpage;
\* which SQLite does not prepare (no FIND_IN_SET, no column TABLE_NAME).
sqlite_tables(cat, names) ==
    LET lit == join(names, <<",">>)
        conv(t) == sqlite_from_Table(sqlite_table_row(t))
    IN  IF names # << >>
        THEN [ok |-> FALSE,
              stmts |-> << [q |-> "tables", arg |-> lit] >>,
              rows |-> << >>]
        ELSE [ok |-> TRUE,
              stmts |-> << [q |-> "tables", arg |-> lit] >>,
              rows |-> MapSeq(cat, conv)]

\* what pragma table_info('name') answers: the columns of that table, and no
\* row for a table the database does not have
pragma_table_info(cat, name) ==
    IF \E i \in 1..Len(cat) : cat[i].name = name
    THEN MapSeq(cat[CHOOSE i \in 1..Len(cat) : cat[i].name = name].columns,
                sqlite_column_row)
    ELSE << >>

\* sqlite.rs: Sqlite::columns.  The statement is the constant text
\* pragma table_info('#{table_names}'); sent once for each name of the filter.
sqlite_columns(cat, names) ==
    LET sql == <<"#","{","t","a","b","l","e","_","n","a","m","e","s","}">>
        of(table_name) ==
            LET set_name(c) == [c EXCEPT !.table_name = Some(table_name)]
            IN  MapSeq(MapSeq(pragma_table_info(cat, sql), sqlite_from_TableColumn_ref),
                       set_name)
        stmt(table_name) == [q |-> "table_info", arg |-> sql]
    IN  [ok |-> TRUE,
         stmts |-> MapSeq(names, stmt),
         rows |-> Flatten(MapSeq(names, of))]

\* the match on self.driver of Generator::generator
adapter_tables(d, cat, names) ==
    CASE d = "Sqlite" -> sqlite_tables(cat, names)
      [] d = "Mysql" -> mysql_tables(cat, names)
      [] d = "Postgres" -> postgres_tables(cat, names)

adapter_columns(d, cat, names) ==
    CASE d = "Sqlite" -> sqlite_columns(cat, names)
      [] d = "Mysql" -> mysql_columns(cat, names)
      [] d = "Postgres" -> postgres_columns(cat, names)

\* lib.rs 204-208: self.table_names.split(',').filter(|t| !t.is_empty())
filter_names(s) == filter_non_empty(split(s, ","))

----------------------------------------------------------------------------
(* Generator::generator (lib.rs 189-315), one action per stage.  A         *)
(* connection, a statement or a file operation can fail in the driver or   *)
(* the file system: each such step chooses its outcome.                    *)

PATH == <<"t","a","r","g","e","t","/","m","o","d","e","l","s","/">>

EmptyMap == [k \in {} |-> << >>]

Init ==
    /\ call = [fn |-> "none", arg |-> << >>, done |-> FALSE, ret |-> << >>]
    /\ driver \in Drivers
    /\ table_names \in ConfigInputs
    /\ catalog \in Catalogs
    /\ pc = "connect"
    /\ tables = << >>
    /\ tables_columns = << >>
    /\ table_map = EmptyMap
    /\ table_column_map = EmptyMap
    /\ connected = FALSE
    /\ queries = << >>
    /\ dir_created = FALSE
    /\ files = << >>
    /\ printed = << >>
    /\ result = "running"

\* lib.rs 215/221/227: Pool::connect(&self.driver_url()).await?
Connect ==
    /\ pc = "connect"
    /\ \E ok \in BOOLEAN :
         IF ok
         THEN connected' = TRUE /\ pc' = "tables" /\ UNCHANGED result
         ELSE connected' = FALSE /\ pc' = "done" /\ result' = "Err"
    /\ UNCHANGED <<call, driver, table_names, catalog, printed, tables, tables_columns,
                   table_map, table_column_map, queries, dir_created, files>>

\* the statements of one adapter call as the log records them: all answered
answered(stmts) ==
    [i \in 1..Len(stmts) |-> [q |-> stmts[i].q, arg |-> stmts[i].arg, ok |-> TRUE]]

\* the statements up to statement k, which the database refuses
refused(stmts, k) ==
    [i \in 1..k |-> [q |-> stmts[i].q, arg |-> stmts[i].arg, ok |-> i < k]]

\* lib.rs 216/222/228: let tables = <dialect>::tables(&pool, &table_names).await?
ListTables ==
    /\ pc = "tables"
    /\ LET r == adapter_tables(driver, catalog, filter_names(table_names))
       IN  \E fail \in BOOLEAN :
             IF r.ok /\ ~fail
             THEN /\ queries' = queries \o answered(r.stmts)
                  /\ tables' = r.rows
                  /\ pc' = "columns"
                  /\ UNCHANGED result
             ELSE /\ queries' = queries \o refused(r.stmts, 1)
                  /\ UNCHANGED tables
                  /\ pc' = "done"
                  /\ result' = "Err"
    /\ UNCHANGED <<call, driver, table_names, catalog, printed, tables_columns, table_map,
                   table_column_map, connected, dir_created, files>>

\* the column query going on with the rows it has when a statement fails
ListColumns_keeps_going ==
    /\ pc = "columns"
    /\ LET r == adapter_columns(driver, catalog, filter_names(table_names))
       IN  \E k \in 0..Len(r.stmts) :
             /\ queries' = queries \o (IF k = 0 THEN answered(r.stmts)
                                                ELSE refused(r.stmts, k))
             /\ tables_columns' = IF k = 0 THEN r.rows ELSE << >>
             /\ pc' = "loaded"
             /\ UNCHANGED result
    /\ UNCHANGED <<call, driver, table_names, catalog, printed, tables, table_map,
                   table_column_map, connected, dir_created, files>>

\* lib.rs 217/223/229: let tables_columns = <dialect>::columns(..).await?
\* k = 0: every statement succeeds; k > 0: statement k fails.
ListColumns ==
    /\ pc = "columns"
    /\ LET r == adapter_columns(driver, catalog, filter_names(table_names))
       IN  \E k \in 0..Len(r.stmts) :
             IF k = 0
             THEN /\ queries' = queries \o answered(r.stmts)
                  /\ tables_columns' = r.rows
                  /\ pc' = "loaded"
                  /\ UNCHANGED result
             ELSE /\ queries' = queries \o refused(r.stmts, k)
                  /\ UNCHANGED tables_columns
                  /\ pc' = "done"
                  /\ result' = "Err"
    /\ UNCHANGED <<call, driver, table_names, catalog, printed, tables, table_map,
                   table_column_map, connected, dir_created, files>>

\* lib.rs 233-236
TablesEmpty ==
    /\ pc = "loaded"
    /\ tables = << >>
    /\ pc' = "done"
    /\ result' = "Ok"
    /\ printed' = Append(printed, <<"t","a","b","l","e","s"," ","i","s"," ","e","m","p","t","y">>)
    /\ UNCHANGED <<call, driver, table_names, catalog, tables, tables_columns,
                   table_map, table_column_map, connected, queries, dir_created,
                   files>>

\* the check of the columns placed after fs::create_dir_all
ColumnsEmpty_after_create_dir ==
    /\ pc = "loaded"
    /\ tables # << >>
    /\ tables_columns = << >>
    /\ pc' = "done"
    /\ \E ok \in BOOLEAN :
         IF ok
         THEN /\ dir_created' = TRUE
              /\ result' = "Ok"
              /\ printed' = Append(printed, <<"t","a","b","l","e"," ","c","o","l","u","m","n","s"," ","i","s"," ","e","m","p","t","y">>)
         ELSE /\ UNCHANGED <<dir_created, printed>>
              /\ result' = "Err"
    /\ UNCHANGED <<call, driver, table_names, catalog, tables, tables_columns,
                   table_map, table_column_map, connected, queries, files>>

\* lib.rs 238-241
ColumnsEmpty ==
    /\ pc = "loaded"
    /\ tables # << >>
    /\ tables_columns = << >>
    /\ pc' = "done"
    /\ result' = "Ok"
    /\ printed' = Append(printed, <<"t","a","b","l","e"," ","c","o","l","u","m","n","s"," ","i","s"," ","e","m","p","t","y">>)
    /\ UNCHANGED <<call, driver, table_names, catalog, tables, tables_columns,
                   table_map, table_column_map, connected, queries, dir_created,
                   files>>

\* lib.rs 244-245: tables.into_iter().map(|t| (t.name.to_owned(), t)).collect();
\* a later table of the same name replaces an earlier one
build_table_map(ts) ==
    [k \in { ts[i].name : i \in 1..Len(ts) } |->
        ts[CHOOSE i \in 1..Len(ts) :
               ts[i].name = k /\ \A j \in (i + 1)..Len(ts) : ts[j].name # k]]

\* the group taking the first column of the key only (find for filter)
build_table_column_map_first_match(tm, cols) ==
    [k \in DOMAIN tm |->
        LET mine(c) == Some(k) = c.table_name
            all == SelectSeq(cols, mine)
        IN  IF all = << >> THEN << >> ELSE << Head(all) >>]

\* the group without the comparison of table_name
build_table_column_map_unfiltered(tm, cols) == [k \in DOMAIN tm |-> cols]

\* the group built by pushing each column to the front
build_table_column_map_reversed(tm, cols) ==
    [k \in DOMAIN tm |->
        LET mine(c) == Some(k) = c.table_name
            all == SelectSeq(cols, mine)
        IN  [i \in 1..Len(all) |-> all[Len(all) + 1 - i]]]

\* the map keyed by the table names the columns carry (a group-by of the columns)
build_table_column_map_by_columns(tm, cols) ==
    [k \in { n \in DOMAIN tm : \E i \in 1..Len(cols) : cols[i].table_name = Some(n) } |->
        LET mine(c) == Some(k) = c.table_name IN SelectSeq(cols, mine)]

\* lib.rs 249-263: per key, the columns whose table_name is Some(key), in order
build_table_column_map(tm, cols) ==
    [k \in DOMAIN tm |->
        LET mine(c) == Some(k) = c.table_name IN SelectSeq(cols, mine)]

\* lib.rs 243-266: the two maps, then fs::create_dir_all(&self.path)?
Normalize ==
    /\ pc = "loaded"
    /\ tables # << >>
    /\ tables_columns # << >>
    /\ table_map' = build_table_map(tables)
    /\ table_column_map' = build_table_column_map(build_table_map(tables), tables_columns)
    /\ \E ok \in BOOLEAN :
         IF ok
         THEN dir_created' = TRUE /\ pc' = "emit" /\ UNCHANGED result
         ELSE UNCHANGED dir_created /\ pc' = "done" /\ result' = "Err"
    /\ UNCHANGED <<call, driver, table_names, catalog, printed, tables, tables_columns,
                   connected, queries, files>>

\* the context taking the presence of a group for its having columns
context_some_means_columns(table_name, tcm) ==
    LET column == IF table_name \in DOMAIN tcm THEN Some(tcm[table_name]) ELSE None
        name_of(c) == unwrap(c.name)
    IN  [file |-> PATH \o table_name \o <<".","r","s">>,
         table |-> table_name,
         has_group |-> column # None,
         has_columns |-> column # None,
         column_num |-> IF column # None THEN Len(unwrap(column)) ELSE 0,
         columns |-> IF column # None THEN unwrap(column) ELSE << >>,
         column_names |-> IF column # None
                          THEN join(MapSeq(unwrap(column), name_of), <<",">>)
                          ELSE << >>]

\* lib.rs 271-295: the rendering context of one table and the file it goes
\* to.  has_group: the branch of "if let Some(columns) = column" was taken,
\* which inserts column_num, columns and column_names.
context(table_name, tcm) ==
    LET column == IF table_name \in DOMAIN tcm THEN Some(tcm[table_name]) ELSE None
        name_of(c) == unwrap(c.name)
    IN  [file |-> PATH \o table_name \o <<".","r","s">>,
         table |-> table_name,
         has_group |-> column # None,
         has_columns |-> IF column # None THEN unwrap(column) # << >> ELSE FALSE,
         column_num |-> IF column # None THEN Len(unwrap(column)) ELSE 0,
         columns |-> IF column # None THEN unwrap(column) ELSE << >>,
         column_names |-> IF column # None
                          THEN join(MapSeq(unwrap(column), name_of), <<",">>)
                          ELSE << >>]

\* lib.rs 300, 312: println!("the {} has been generated", &file_name)
generated(file_name) == <<"t","h","e"," ">> \o file_name \o <<" ","h","a","s"," ","b","e","e","n"," ","g","e","n","e","r","a","t","e","d">>

Emitted == { files[i].table : i \in 1..Len(files) }

\* lib.rs 270-301: one turn of table_map.iter().for_each; a HashMap yields its
\* entries in an order of its own.  File::create and write_all are expect()ed.
EmitTable ==
    /\ pc = "emit"
    /\ \E table_name \in DOMAIN table_map \ Emitted :
         \E ok \in BOOLEAN :
           IF ok
           THEN /\ files' = Append(files, context(table_name, table_column_map))
                /\ printed' = Append(printed, generated(PATH \o table_name \o <<".","r","s">>))
                /\ UNCHANGED <<pc, result>>
           ELSE /\ UNCHANGED <<files, printed>>
                /\ pc' = "done"
                /\ result' = "Panic"
    /\ UNCHANGED <<call, driver, table_names, catalog, tables, tables_columns,
                   table_map, table_column_map, connected, queries, dir_created>>

\* mod.rs written without waiting for the table files
EmitMod_any_time ==
    /\ pc = "emit"
    /\ \E outcome \in {"Ok", "Err", "Panic"} :
         /\ result' = outcome
         /\ IF outcome = "Ok"
            THEN /\ files' = Append(files,
                        [file |-> PATH \o <<"m","o","d",".","r","s">>, table |-> << >>,
                         has_group |-> FALSE, has_columns |-> FALSE,
                         column_num |-> 0, columns |-> << >>,
                         column_names |-> << >>])
                 /\ printed' = printed \o << generated(PATH \o <<"m","o","d",".","r","s">>),
                                             <<"=","=","=","=","=","="," ","o","v","e","r"," ","=","=","=","=","=","=">> >>
            ELSE UNCHANGED <<files, printed>>
    /\ pc' = "done"
    /\ UNCHANGED <<call, driver, table_names, catalog, tables, tables_columns,
                   table_map, table_column_map, connected, queries, dir_created>>

\* lib.rs 303-314: mod.rs after the last table; render_str and write_all
\* are ?-propagated, File::create is expect()ed
EmitMod ==
    /\ pc = "emit"
    /\ DOMAIN table_map \ Emitted = {}
    /\ \E outcome \in {"Ok", "Err", "Panic"} :
         /\ result' = outcome
         /\ IF outcome = "Ok"
            THEN /\ files' = Append(files,
                        [file |-> PATH \o <<"m","o","d",".","r","s">>, table |-> << >>,
                         has_group |-> FALSE, has_columns |-> FALSE,
                         column_num |-> 0, columns |-> << >>,
                         column_names |-> << >>])
                 /\ printed' = printed \o << generated(PATH \o <<"m","o","d",".","r","s">>),
                                             <<"=","=","=","=","=","="," ","o","v","e","r"," ","=","=","=","=","=","=">> >>
            ELSE UNCHANGED <<files, printed>>
    /\ pc' = "done"
    /\ UNCHANGED <<call, driver, table_names, catalog, tables, tables_columns,
                   table_map, table_column_map, connected, queries, dir_created>>

Next ==
    \/ Connect
    \/ ListTables
    \/ ListColumns
    \/ TablesEmpty
    \/ ColumnsEmpty
    \/ Normalize
    \/ EmitTable
    \/ EmitMod

Spec == Init /\ [][Next]_vars

----------------------------------------------------------------------------
(* Generator::generator from line 233 on, for any outcome of the two       *)
(* queries: the table rows and the column rows are answers to separate     *)
(* statements, so a column row can name a table the table rows do not hold *)
(* and a table row can have no column row.                                 *)

MaxLoadedTables == 2
MaxLoadedColumns == 3

\* the tables and column shapes the answers are drawn from
LoadedPool == SubSeq(AllTables, 1, 2)
LoadedShapes == { LoadedPool[2].columns[i] : i \in 1..Len(LoadedPool[2].columns) }

\* a table row, converted by the adapter of driver d
table_of(d, t) ==
    CASE d = "Sqlite" -> sqlite_from_Table(sqlite_table_row(t))
      [] d = "Mysql" -> mysql_from_Table(mysql_table_row(t))
      [] d = "Postgres" -> postgres_from_Table(postgres_table_row(t))

\* a column row of table t, converted by the adapter of driver d
column_of(d, t, c) ==
    CASE d = "Sqlite" ->
            [sqlite_from_TableColumn_ref(sqlite_column_row(c))
                EXCEPT !.table_name = Some(t.name)]
      [] d = "Mysql" -> mysql_from_TableColumn(mysql_column_row(t, c))
      [] d = "Postgres" -> postgres_from_TableColumn(postgres_column_row(t, c))

\* mysql.rs 150: table_name is an Option<String>; a row without TABLE_NAME
column_of_no_table(c) ==
    mysql_from_TableColumn([mysql_column_row(LoadedPool[1], c)
                               EXCEPT !.table_name = None])

\* the table lists: rows of distinct names
LoadedTables(d) ==
    { [i \in 1..Len(s) |-> table_of(d, LoadedPool[s[i]])] :
        s \in { q \in UNION { [1..n -> 1..Len(LoadedPool)] : n \in 0..MaxLoadedTables } :
                  \A i, j \in 1..Len(q) : i # j => q[i] # q[j] } }

\* the column rows an answer can hold
LoadedColumnRows(d) ==
    { column_of(d, LoadedPool[i], c) : i \in 1..Len(LoadedPool), c \in LoadedShapes }
      \cup (IF d = "Mysql" THEN { column_of_no_table(c) : c \in LoadedShapes } ELSE {})

\* the column lists
LoadedColumns(d) ==
    UNION { [1..n -> LoadedColumnRows(d)] : n \in 0..MaxLoadedColumns }

\* the statements of a run whose filter is empty
sent(d) ==
    answered(adapter_tables(d, << >>, << >>).stmts)
      \o answered(adapter_columns(d, << >>, << >>).stmts)

InitLoaded ==
    /\ call = [fn |-> "none", arg |-> << >>, done |-> FALSE, ret |-> << >>]
    /\ driver \in Drivers
    /\ table_names = << >>
    /\ catalog = << >>
    /\ pc = "loaded"
    /\ tables \in LoadedTables(driver)
    /\ tables_columns \in LoadedColumns(driver)
    /\ table_map = EmptyMap
    /\ table_column_map = EmptyMap
    /\ connected = TRUE
    /\ queries = sent(driver)
    /\ dir_created = FALSE
    /\ files = << >>
    /\ printed = << >>
    /\ result = "running"

NextLoaded ==
    \/ TablesEmpty
    \/ ColumnsEmpty
    \/ Normalize
    \/ EmitTable
    \/ EmitMod

SpecLoaded == InitLoaded /\ [][NextLoaded]_vars


----------------------------------------------------------------------------
(* Direct calls of the pure functions and of the row conversions: the      *)
(* initial state holds the argument, the action applies the function.      *)

MaxTypeLen == 3
MaxNameLen == 3

LowerChar(c) ==
    IF \E i \in 1..26 : UpperChars[i] = c
    THEN LowerChars[CHOOSE i \in 1..26 : UpperChars[i] = c]
    ELSE c
Lowered(s) == [i \in 1..Len(s) |-> LowerChar(s[i])]
Capitalized(s) == [i \in 1..Len(s) |-> IF i = 1 THEN s[i] ELSE LowerChar(s[i])]

StringsOver(alphabet, n) == UNION { [1..k -> alphabet] : k \in 0..n }

\* the native type spellings named by the arms of mysql_to_rust
MysqlKeys == {
    <<"T","I","N","Y","I","N","T","(","1",")">>, <<"B","O","O","L","E","A","N">>, <<"T","I","N","Y","I","N","T">>, <<"T","I","N","Y","I","N","T"," ","U","N","S","I","G","N","E","D">>, <<"B","I","T">>,
    <<"S","M","A","L","L","I","N","T">>, <<"S","M","A","L","L","I","N","T"," ","U","N","S","I","G","N","E","D">>, <<"I","N","T">>, <<"M","E","D","I","U","M","I","N","T">>, <<"I","N","T"," ","U","N","S","I","G","N","E","D">>,
    <<"M","E","D","I","U","M","I","N","T"," ","U","N","S","I","G","N","E","D">>, <<"B","I","G","I","N","T">>, <<"B","I","G","I","N","T"," ","U","N","S","I","G","N","E","D">>, <<"F","L","O","A","T">>, <<"D","O","U","B","L","E">>,
    <<"N","U","M","E","R","I","C">>, <<"V","A","R","B","I","N","A","R","Y">>, <<"B","I","N","A","R","Y">>, <<"B","L","O","B">>, <<"Y","E","A","R">>, <<"D","A","T","E">>, <<"T","I","M","E">>,
    <<"D","A","T","E","T","I","M","E">>, <<"T","I","M","E","S","T","A","M","P">>, <<"D","E","C","I","M","A","L">>, <<"J","S","O","N">> }

\* the native type spellings named by the arms of pg_to_rust
PgKeys == {
    <<"B","O","O","L">>, <<"C","H","A","R">>, <<"S","M","A","L","L","I","N","T">>, <<"S","M","A","L","L","S","E","R","I","A","L">>, <<"I","N","T","2">>, <<"I","N","T">>, <<"S","E","R","I","A","L">>,
    <<"I","N","T","4">>, <<"B","I","G","I","N","T">>, <<"B","I","G","S","E","R","I","A","L">>, <<"I","N","T","8">>, <<"R","E","A","L">>, <<"F","L","O","A","T","4">>,
    <<"D","O","U","B","L","E"," ","P","R","E","C","I","S","I","O","N">>, <<"F","L","O","A","T","8">>, <<"B","Y","T","E","A">>, <<"V","O","I","D">>, <<"I","N","T","E","R","V","A","L">>,
    <<"I","N","T","8","R","A","N","G","E">>, <<"I","N","T","4","R","A","N","G","E">>, <<"T","S","R","A","N","G","E">>, <<"T","S","T","Z","R","A","N","G","E">>, <<"D","A","T","E","R","A","N","G","E">>,
    <<"N","U","M","R","A","N","G","E">>, <<"M","O","N","E","Y">>, <<"L","T","R","E","E">>, <<"L","Q","U","E","R","Y">>, <<"Y","E","A","R">>, <<"D","A","T","E">>, <<"T","I","M","E">>,
    <<"T","I","M","E","S","T","A","M","P">>, <<"T","I","M","E","S","T","A","M","P","T","Z">>, <<"T","I","M","E","T","Z">>, <<"N","U","M","E","R","I","C">>, <<"J","S","O","N">>, <<"J","S","O","N","B">>,
    <<"U","U","I","D">>, <<"I","N","E","T">>, <<"C","I","D","R">>, <<"M","A","C","A","D","D","R">>, <<"B","I","T">>, <<"V","A","R","B","I","T">> }

\* the native type spellings named by the arms of sqlite_to_rust
SqliteKeys == {
    <<"B","O","O","L","E","A","N">>, <<"I","N","T","E","G","E","R">>, <<"B","I","G","I","N","T">>, <<"I","N","T","8">>, <<"R","E","A","L">>, <<"B","L","O","B">>, <<"D","A","T","E">>,
    <<"T","I","M","E">>, <<"D","A","T","E","T","I","M","E">> }

\* spellings of no table, parameterized and padded spellings, catalog texts
OtherTypes == {
    <<>>, <<"V","A","R","C","H","A","R">>, <<"T","E","X","T">>, <<"N","A","M","E">>, <<"G","E","O","M","E","T","R","Y">>, <<"I","N","T","(","1","1",")">>, <<"i","n","t","(","1","1",")">>,
    <<" ","I","N","T">>, <<"I","N","T"," ">>, <<"T","i","n","y","I","n","t","(","1",")">>, <<"T","I","N","Y","I","N","T","(","4",")">>, <<"V","A","R","C","H","A","R","(","5","0",")">>,
    <<"v","a","r","c","h","a","r","(","5","0",")">>, <<"D","A","T","E","T","I","M","E","(","6",")">>, <<"B","I","T","(","1",")">>, <<"I","N","T","E","G","E","R","(","7","0","0","0","0",")">>,
    <<"c","h","a","r","a","c","t","e","r"," ","v","a","r","y","i","n","g">>, <<"t","i","m","e","s","t","a","m","p"," ","w","i","t","h","o","u","t"," ","t","i","m","e"," ","z","o","n","e">>, <<"i","n","t","e","g","e","r">> }

NamedTypes == MysqlKeys \cup PgKeys \cup SqliteKeys \cup OtherTypes

TypeInputs ==
    NamedTypes
      \cup { Lowered(s) : s \in NamedTypes }
      \cup { Capitalized(s) : s \in NamedTypes }
      \cup StringsOver({"B", "I", "T", "b", "i", "t"}, MaxTypeLen)

NameInputs ==
    StringsOver({"a", "_", "-"}, MaxNameLen)
      \cup { <<"i","d">>, <<"u","s","e","r","_","i","d">>, <<"c","r","e","a","t","e","d","-","a","t">>, <<"t","y","p","e">>, <<"S","e","l","f">>, <<"r","#","t","y","p","e">>, <<"T","y","p","e">> }

ColumnNames == { <<"i","d">>, <<"u","s","e","r","_","i","d">>, <<"c","r","e","a","t","e","d","-","a","t">>, <<"t","y","p","e">> }

\* the rows a catalog can report for one column
RowColumns ==
    { CatColumn(n, Native(ty, ty, ty), nn, None) :
        n \in ColumnNames, ty \in TypeInputs, nn \in BOOLEAN }
      \cup { [CatColumn(<<"i","d">>, Native(ty, ty, ty), nn, None) EXCEPT !.default = Some(<<"0">>)] :
               ty \in { <<"i","n","t">>, <<"D","A","T","E">>, <<"d","a","t","e","t","i","m","e">> }, nn \in BOOLEAN }

RowTable == [name |-> <<"u","s","e","r","s">>, comment |-> <<>>]

Pending(fn, arg) == [fn |-> fn, arg |-> arg, done |-> FALSE, ret |-> << >>]

\* the pending calls: one family per function
CallInputs(fn) ==
    CASE fn = "mysql_to_rust" -> { Pending(fn, s) : s \in TypeInputs }
      [] fn = "pg_to_rust" -> { Pending(fn, s) : s \in TypeInputs }
      [] fn = "sqlite_to_rust" -> { Pending(fn, s) : s \in TypeInputs }
      [] fn = "sqlite_type" -> { Pending(fn, s) : s \in TypeInputs }
      [] fn = "multi_world" -> { Pending(fn, s) : s \in NameInputs }
      [] fn = "column_keywords" -> { Pending(fn, s) : s \in NameInputs \cup KEYWORDS }
      [] fn = "mysql_from" ->
            { Pending(fn, mysql_column_row(RowTable, c)) : c \in RowColumns }
      [] fn = "postgres_from" ->
            { Pending(fn, postgres_column_row(RowTable, c)) : c \in RowColumns }
      [] fn = "sqlite_from" -> { Pending(fn, sqlite_column_row(c)) : c \in RowColumns }
      [] fn = "sqlite_from_ref" ->
            { Pending(fn, sqlite_column_row(c)) : c \in RowColumns }

Functions == { "mysql_to_rust", "pg_to_rust", "sqlite_to_rust", "sqlite_type",
               "multi_world", "column_keywords", "mysql_from", "postgres_from",
               "sqlite_from", "sqlite_from_ref" }

InitCalls ==
    /\ \E fn \in Functions : call \in CallInputs(fn)
    /\ driver = "Mysql"
    /\ table_names = << >>
    /\ catalog = << >>
    /\ pc = "idle"
    /\ tables = << >>
    /\ tables_columns = << >>
    /\ table_map = EmptyMap
    /\ table_column_map = EmptyMap
    /\ connected = FALSE
    /\ queries = << >>
    /\ dir_created = FALSE
    /\ files = << >>
    /\ printed = << >>
    /\ result = "running"

Return(value) ==
    /\ ~call.done
    /\ call' = [call EXCEPT !.done = TRUE, !.ret = value]
    /\ UNCHANGED pipeline_vars

CallMysqlToRust ==
    /\ call.fn = "mysql_to_rust"
    /\ Return(mysql_to_rust(call.arg))

CallPgToRust ==
    /\ call.fn = "pg_to_rust"
    /\ Return(pg_to_rust(call.arg))

CallSqliteToRust ==
    /\ call.fn = "sqlite_to_rust"
    /\ Return(sqlite_to_rust(call.arg))

CallSqliteType ==
    /\ call.fn = "sqlite_type"
    /\ Return(sqlite_type(call.arg))

CallMultiWorld ==
    /\ call.fn = "multi_world"
    /\ Return(multi_world(call.arg))

CallColumnKeywords ==
    /\ call.fn = "column_keywords"
    /\ Return(column_keywords(call.arg))

ConvertMysql ==
    /\ call.fn = "mysql_from"
    /\ Return(mysql_from_TableColumn(call.arg))

ConvertPostgres ==
    /\ call.fn = "postgres_from"
    /\ Return(postgres_from_TableColumn(call.arg))

ConvertSqlite ==
    /\ call.fn = "sqlite_from"
    /\ Return(sqlite_from_TableColumn(call.arg))

ConvertSqliteRef ==
    /\ call.fn = "sqlite_from_ref"
    /\ Return(sqlite_from_TableColumn_ref(call.arg))

NextCalls ==
    \/ CallMysqlToRust
    \/ CallPgToRust
    \/ CallSqliteToRust
    \/ CallSqliteType
    \/ CallMultiWorld
    \/ CallColumnKeywords
    \/ ConvertMysql
    \/ ConvertPostgres
    \/ ConvertSqlite
    \/ ConvertSqliteRef

SpecCalls == InitCalls /\ [][NextCalls]_vars

----------------------------------------------------------------------------
(* Properties                                                              *)

HasChar(s, chars) == \E i \in 1..Len(s) : s[i] \in chars
EndsWith(s, suffix) ==
    Len(s) >= Len(suffix) /\ SubSeq(s, Len(s) - Len(suffix) + 1, Len(s)) = suffix
NamesOf(ts) == [i \in 1..Len(ts) |-> ts[i].name]
Filter == filter_names(table_names)
FilterSet == { Filter[i] : i \in 1..Len(Filter) }
TablesListed == pc \in {"columns", "loaded", "emit"}
ColumnsListed == pc \in {"loaded", "emit"}

\* C1: with a non-empty name filter, listTables returns exactly the catalog
\* tables whose name is a member of the filter set, for every adapter and a
\* filter of any size.
C1_NameFilterIsMembership ==
    (TablesListed /\ Filter # << >>) =>
        LET member(n) == n \in FilterSet
        IN  NamesOf(tables) = SelectSeq(NamesOf(catalog), member)

\* C2: with an empty name filter every adapter lists every table of the
\* catalog and the columns of every one of those tables.
C2_EmptyFilterIsUnrestricted ==
    (ColumnsListed /\ Filter = << >>) =>
        /\ NamesOf(tables) = NamesOf(catalog)
        /\ \A i \in 1..Len(catalog) :
             LET mine(c) == c.table_name = Some(catalog[i].name)
                 raw(c) == unwrap(c.column_type)
             IN  MapSeq(SelectSeq(tables_columns, mine), raw)
                   = [j \in 1..Len(catalog[i].columns) |->
                        catalog[i].columns[j].native[driver]]
        /\ (catalog # << >> => tables_columns # << >>)

\* the temporal field types named by the type tables
TemporalTypes == {
    <<"t","i","m","e",":",":","D","a","t","e">>, <<"t","i","m","e",":",":","T","i","m","e">>, <<"t","i","m","e",":",":","P","r","i","m","i","t","i","v","e","D","a","t","e","T","i","m","e">>,
    <<"t","i","m","e",":",":","O","f","f","s","e","t","D","a","t","e","T","i","m","e">>, <<"t","i","m","e",":",":","o","f","f","s","e","t","D","a","t","e","T","i","m","e">>,
    <<"s","q","l","x","_","p","o","s","t","g","r","e","s",":",":","t","y","p","e","s",":",":","P","g","T","i","m","e","T","z">> }

\* C3: in the mysql and postgres conversions a column whose field_type is a
\* temporal type has is_nullable = "Yes", whatever the catalog reported.
C3_TemporalIsNullable ==
    (call.done /\ call.fn \in {"mysql_from", "postgres_from"}
       /\ unwrap(call.ret.field_type) \in TemporalTypes)
      => call.ret.is_nullable = Some(<<"Y","e","s">>)

\* C4: in the sqlite conversions a column whose field_type is a temporal type
\* has is_nullable = "Null", even when the catalog's notnull flag is 1.
C4_SqliteTemporalIsNullable ==
    (call.done /\ call.fn \in {"sqlite_from", "sqlite_from_ref"}
       /\ unwrap(call.ret.field_type) \in TemporalTypes)
      => call.ret.is_nullable = Some(<<"N","u","l","l">>)

Mappers == {"mysql_to_rust", "pg_to_rust", "sqlite_to_rust"}
Conversions == {"mysql_from", "postgres_from", "sqlite_from", "sqlite_from_ref"}
KeysOf(fn) ==
    CASE fn = "mysql_to_rust" -> MysqlKeys
      [] fn = "pg_to_rust" -> PgKeys
      [] fn = "sqlite_to_rust" -> SqliteKeys

\* C5: each type-mapping function is total: an input whose upper-cased form
\* is no entry of the dialect's table gives "String", every input gives a
\* non-empty type name, and every converted Column has a non-empty field_type.
C5_MappingIsTotal ==
    call.done =>
        /\ call.fn \in Mappers =>
             /\ call.ret # << >>
             /\ to_uppercase(call.arg) \notin KeysOf(call.fn) => call.ret = <<"S","t","r","i","n","g">>
        /\ call.fn \in Conversions =>
             /\ call.ret.field_type # None
             /\ unwrap(call.ret.field_type) # << >>

C5_Witness ==
    /\ call.done
    /\ call.fn = "sqlite_to_rust"
    /\ call.arg = <<"g","e","o","m","e","t","r","y">>
    /\ call.ret = <<"S","t","r","i","n","g">>

\* the table documented above mysql_to_rust (mysql.rs 215-241)
MysqlDocumented == {
    <<<<"T","I","N","Y","I","N","T","(","1",")">>, <<"b","o","o","l">>>>, <<<<"B","O","O","L","E","A","N">>, <<"b","o","o","l">>>>, <<<<"T","I","N","Y","I","N","T">>, <<"i","8">>>>,
    <<<<"S","M","A","L","L","I","N","T">>, <<"i","1","6">>>>, <<<<"I","N","T">>, <<"i","3","2">>>>, <<<<"B","I","G","I","N","T">>, <<"i","6","4">>>>,
    <<<<"T","I","N","Y","I","N","T"," ","U","N","S","I","G","N","E","D">>, <<"u","8">>>>, <<<<"S","M","A","L","L","I","N","T"," ","U","N","S","I","G","N","E","D">>, <<"u","1","6">>>>,
    <<<<"I","N","T"," ","U","N","S","I","G","N","E","D">>, <<"u","3","2">>>>, <<<<"B","I","G","I","N","T"," ","U","N","S","I","G","N","E","D">>, <<"u","6","4">>>>,
    <<<<"F","L","O","A","T">>, <<"f","3","2">>>>, <<<<"D","O","U","B","L","E">>, <<"f","6","4">>>>,
    <<<<"V","A","R","C","H","A","R">>, <<"S","t","r","i","n","g">>>>, <<<<"C","H","A","R">>, <<"S","t","r","i","n","g">>>>, <<<<"T","E","X","T">>, <<"S","t","r","i","n","g">>>>,
    <<<<"V","A","R","B","I","N","A","R","Y">>, <<"V","e","c","<","u","8",">">>>>, <<<<"B","I","N","A","R","Y">>, <<"V","e","c","<","u","8",">">>>>, <<<<"B","L","O","B">>, <<"V","e","c","<","u","8",">">>>>,
    <<<<"D","A","T","E","T","I","M","E">>, <<"t","i","m","e",":",":","P","r","i","m","i","t","i","v","e","D","a","t","e","T","i","m","e">>>>,
    <<<<"T","I","M","E","S","T","A","M","P">>, <<"t","i","m","e",":",":","O","f","f","s","e","t","D","a","t","e","T","i","m","e">>>>,
    <<<<"D","A","T","E">>, <<"t","i","m","e",":",":","D","a","t","e">>>>, <<<<"T","I","M","E">>, <<"t","i","m","e",":",":","T","i","m","e">>>>,
    <<<<"D","E","C","I","M","A","L">>, <<"b","i","g","d","e","c","i","m","a","l",":",":","B","i","g","D","e","c","i","m","a","l">>>>,
    <<<<"J","S","O","N">>, <<"s","e","r","d","e","_","j","s","o","n",":",":","J","s","o","n","V","a","l","u","e">>>> }

\* C6: for every MySQL native type of the documented table, mysql_to_rust
\* returns exactly the documented Rust type.
C6_MysqlMatchesDocumentedTable ==
    (call.done /\ call.fn = "mysql_to_rust") =>
        \A d \in MysqlDocumented : call.arg = d[1] => call.ret = d[2]

\* the table documented above pg_to_rust (postgres.rs 216-250)
PgDocumented == {
    <<<<"B","O","O","L">>, <<"b","o","o","l">>>>, <<<<"C","H","A","R">>, <<"i","8">>>>,
    <<<<"S","M","A","L","L","I","N","T">>, <<"i","1","6">>>>, <<<<"S","M","A","L","L","S","E","R","I","A","L">>, <<"i","1","6">>>>, <<<<"I","N","T","2">>, <<"i","1","6">>>>,
    <<<<"I","N","T">>, <<"i","3","2">>>>, <<<<"S","E","R","I","A","L">>, <<"i","3","2">>>>, <<<<"I","N","T","4">>, <<"i","3","2">>>>,
    <<<<"B","I","G","I","N","T">>, <<"i","6","4">>>>, <<<<"B","I","G","S","E","R","I","A","L">>, <<"i","6","4">>>>, <<<<"I","N","T","8">>, <<"i","6","4">>>>,
    <<<<"R","E","A","L">>, <<"f","3","2">>>>, <<<<"F","L","O","A","T","4">>, <<"f","3","2">>>>,
    <<<<"D","O","U","B","L","E"," ","P","R","E","C","I","S","I","O","N">>, <<"f","6","4">>>>, <<<<"F","L","O","A","T","8">>, <<"f","6","4">>>>,
    <<<<"V","A","R","C","H","A","R">>, <<"S","t","r","i","n","g">>>>, <<<<"T","E","X","T">>, <<"S","t","r","i","n","g">>>>, <<<<"N","A","M","E">>, <<"S","t","r","i","n","g">>>>,
    <<<<"B","Y","T","E","A">>, <<"V","e","c","<","u","8",">">>>>, <<<<"V","O","I","D">>, <<"(",")">>>>,
    <<<<"I","N","T","E","R","V","A","L">>, <<"P","g","I","n","t","e","r","v","a","l">>>>,
    <<<<"I","N","T","8","R","A","N","G","E">>, <<"P","g","R","a","n","g","e","<","T",">">>>>, <<<<"I","N","T","4","R","A","N","G","E">>, <<"P","g","R","a","n","g","e","<","T",">">>>>,
    <<<<"T","S","R","A","N","G","E">>, <<"P","g","R","a","n","g","e","<","T",">">>>>, <<<<"T","S","T","Z","R","A","N","G","E">>, <<"P","g","R","a","n","g","e","<","T",">">>>>,
    <<<<"D","A","T","E","R","A","N","G","E">>, <<"P","g","R","a","n","g","e","<","T",">">>>>, <<<<"N","U","M","R","A","N","G","E">>, <<"P","g","R","a","n","g","e","<","T",">">>>>,
    <<<<"M","O","N","E","Y">>, <<"P","g","M","o","n","e","y">>>>, <<<<"L","T","R","E","E">>, <<"P","g","L","T","r","e","e">>>>, <<<<"L","Q","U","E","R","Y">>, <<"P","g","L","Q","u","e","r","y">>>>,
    <<<<"N","U","M","E","R","I","C">>, <<"b","i","g","d","e","c","i","m","a","l",":",":","B","i","g","D","e","c","i","m","a","l">>>>,
    <<<<"T","I","M","E","S","T","A","M","P">>, <<"t","i","m","e",":",":","P","r","i","m","i","t","i","v","e","D","a","t","e","T","i","m","e">>>>,
    <<<<"T","I","M","E","S","T","A","M","P","T","Z">>, <<"t","i","m","e",":",":","O","f","f","s","e","t","D","a","t","e","T","i","m","e">>>>,
    <<<<"D","A","T","E">>, <<"t","i","m","e",":",":","D","a","t","e">>>>, <<<<"T","I","M","E">>, <<"t","i","m","e",":",":","T","i","m","e">>>>,
    <<<<"T","I","M","E","T","Z">>, <<"P","g","T","i","m","e","T","z">>>>, <<<<"U","U","I","D">>, <<"u","u","i","d",":",":","U","u","i","d">>>>,
    <<<<"I","N","E","T">>, <<"i","p","n","e","t","w","o","r","k",":",":","I","p","N","e","t","w","o","r","k">>>>, <<<<"I","N","E","T">>, <<"s","t","d",":",":","n","e","t",":",":","I","p","A","d","d","r">>>>,
    <<<<"C","I","D","R">>, <<"i","p","n","e","t","w","o","r","k",":",":","I","p","N","e","t","w","o","r","k">>>>, <<<<"C","I","D","R">>, <<"s","t","d",":",":","n","e","t",":",":","I","p","A","d","d","r">>>>,
    <<<<"M","A","C","A","D","D","R">>, <<"m","a","c","_","a","d","d","r","e","s","s",":",":","M","a","c","A","d","d","r","e","s","s">>>>,
    <<<<"B","I","T">>, <<"b","i","t","_","v","e","c",":",":","B","i","t","V","e","c">>>>, <<<<"V","A","R","B","I","T">>, <<"b","i","t","_","v","e","c",":",":","B","i","t","V","e","c">>>>,
    <<<<"J","S","O","N">>, <<"s","e","r","d","e","_","j","s","o","n",":",":","V","a","l","u","e">>>>, <<<<"J","S","O","N","B">>, <<"s","e","r","d","e","_","j","s","o","n",":",":","V","a","l","u","e">>>> }

\* the result names the documented type: the same text, or a path ending in it
NamesType(ret, documented) ==
    ret = documented \/ EndsWith(ret, <<":",":">> \o documented)

\* C7: for every Postgres native type of the documented table, pg_to_rust
\* returns the documented Rust type (one of the two documented for INET, CIDR).
C7_PgMatchesDocumentedTable ==
    (call.done /\ call.fn = "pg_to_rust") =>
        \A n \in { d[1] : d \in PgDocumented } :
            call.arg = n =>
                \E d \in PgDocumented : d[1] = n /\ NamesType(call.ret, d[2])

\* C8: the tables are per dialect: "BIT" in any letter case maps to u8 under
\* mysql_to_rust, to bit_vec::BitVec under pg_to_rust and to String under
\* sqlite_to_rust, and each conversion maps with its own dialect's table.
C8_TablesArePerDialect ==
    call.done =>
        /\ call.fn = "mysql_from" =>
             call.ret.field_type = Some(mysql_to_rust(unwrap(call.arg.column_type)))
        /\ call.fn = "postgres_from" =>
             call.ret.field_type = Some(pg_to_rust(call.arg.data_type))
        /\ call.fn \in {"sqlite_from", "sqlite_from_ref"} =>
             call.ret.field_type
               = Some(sqlite_to_rust(sqlite_type(unwrap(call.arg.type))[1]))
        /\ (call.fn \in Mappers /\ to_uppercase(call.arg) = <<"B","I","T">>) =>
             call.ret = CASE call.fn = "mysql_to_rust" -> <<"u","8">>
                          [] call.fn = "pg_to_rust" -> <<"b","i","t","_","v","e","c",":",":","B","i","t","V","e","c">>
                          [] call.fn = "sqlite_to_rust" -> <<"S","t","r","i","n","g">>
        /\ (call.fn = "mysql_from"
              /\ to_uppercase(unwrap(call.arg.column_type)) = <<"B","I","T">>) =>
             call.ret.field_type = Some(<<"u","8">>)
        /\ (call.fn = "postgres_from" /\ to_uppercase(call.arg.data_type) = <<"B","I","T">>) =>
             call.ret.field_type = Some(<<"b","i","t","_","v","e","c",":",":","B","i","t","V","e","c">>)
        /\ (call.fn \in {"sqlite_from", "sqlite_from_ref"}
              /\ to_uppercase(unwrap(call.arg.type)) = <<"B","I","T">>) =>
             call.ret.field_type = Some(<<"S","t","r","i","n","g">>)

C8_Witness ==
    /\ call.done
    /\ call.fn = "sqlite_from_ref"
    /\ unwrap(call.arg.type) = <<"B","I","T">>
    /\ call.ret.field_type = Some(<<"S","t","r","i","n","g">>)

\* C9: the lookup is case-insensitive and otherwise exact: map(s) equals
\* map(uppercase(s)), only a string whose upper-cased form is an entry gets
\* that entry's type, "INT(11)" does not match "INT" and "TINYINT(1)" gives bool.
C9_LookupIsCaseInsensitiveAndExact ==
    (call.done /\ call.fn \in Mappers) =>
        LET u == to_uppercase(call.arg)
            again == CASE call.fn = "mysql_to_rust" -> mysql_to_rust(u)
                       [] call.fn = "pg_to_rust" -> pg_to_rust(u)
                       [] call.fn = "sqlite_to_rust" -> sqlite_to_rust(u)
        IN  /\ call.ret = again
            /\ call.ret # <<"S","t","r","i","n","g">> => u \in KeysOf(call.fn)
            /\ u = <<"I","N","T","(","1","1",")">> => call.ret = <<"S","t","r","i","n","g">>
            /\ (call.fn = "mysql_to_rust" /\ u = <<"I","N","T">>) => call.ret = <<"i","3","2">>
            /\ (call.fn = "mysql_to_rust" /\ u = <<"T","I","N","Y","I","N","T","(","1",")">>) => call.ret = <<"b","o","o","l">>

C9_Witness ==
    /\ call.done
    /\ call.fn = "mysql_to_rust"
    /\ call.arg = <<"T","i","n","y","I","n","t","(","1",")">>
    /\ call.ret = <<"b","o","o","l">>

\* the column name the catalog reported, before column_keywords
ReportedName ==
    CASE call.fn = "mysql_from" -> unwrap(call.arg.column_name)
      [] call.fn = "postgres_from" -> call.arg.column_name
      [] call.fn \in {"sqlite_from", "sqlite_from_ref"} -> unwrap(call.arg.name)

\* C10: multi_world(name) is true exactly when name contains '_' or '-', the
\* empty name included, and every conversion sets the Column's multi_world to
\* multi_world of the column name the catalog reported.
C10_MultiWorldIsUnderscoreOrHyphen ==
    call.done =>
        /\ call.fn = "multi_world" => call.ret = HasChar(call.arg, {"_", "-"})
        /\ call.fn \in Conversions =>
             call.ret.multi_world = Some(HasChar(ReportedName, {"_", "-"}))

C10_Witness ==
    /\ call.done
    /\ call.fn = "sqlite_from"
    /\ unwrap(call.arg.name) = <<"c","r","e","a","t","e","d","-","a","t">>
    /\ call.ret.multi_world = Some(TRUE)

\* C11: column_keywords(name) is "r#" followed by name when name is, letter
\* case included, a member of KEYWORDS, and name unchanged otherwise; the
\* result is never a member of KEYWORDS and escaping it again changes nothing.
C11_KeywordsAreEscapedOnce ==
    (call.done /\ call.fn = "column_keywords") =>
        /\ call.arg \in KEYWORDS => call.ret = <<"r", "#">> \o call.arg
        /\ call.arg \notin KEYWORDS => call.ret = call.arg
        /\ call.ret \notin KEYWORDS
        /\ column_keywords(call.ret) = call.ret

C11_Witness ==
    /\ call.done
    /\ call.fn = "column_keywords"
    /\ call.arg = <<"t","y","p","e">>
    /\ call.ret = <<"r","#","t","y","p","e">>

Normalized == DOMAIN table_map # {}
TableNames == { tables[i].name : i \in 1..Len(tables) }
DistinctNames == \A i, j \in 1..Len(tables) : tables[i].name = tables[j].name => i = j
Owned(c) == \E n \in TableNames : c.table_name = Some(n)
InGroup(c, k) == \E j \in 1..Len(table_column_map[k]) : table_column_map[k][j] = c

RECURSIVE TotalColumns(_)
TotalColumns(keys) ==
    IF keys = {} THEN 0
    ELSE LET k == CHOOSE x \in keys : TRUE
         IN  Len(table_column_map[k]) + TotalColumns(keys \ {k})

\* C12: for tables of distinct names and columns that each name one of those
\* tables, the keys of the column-group map are exactly the table names and
\* the groups hold |C| columns together, each column in exactly one group.
C12_GroupsPartitionTheColumns ==
    (Normalized /\ DistinctNames /\ \A i \in 1..Len(tables_columns) : Owned(tables_columns[i]))
      => /\ DOMAIN table_column_map = TableNames
         /\ TotalColumns(DOMAIN table_column_map) = Len(tables_columns)
         /\ \A i \in 1..Len(tables_columns) :
              Cardinality({ k \in DOMAIN table_column_map :
                              InGroup(tables_columns[i], k) }) = 1

C12_Witness ==
    /\ Normalized
    /\ Len(tables) = 2
    /\ Len(tables_columns) = 3
    /\ \A i \in 1..3 : Owned(tables_columns[i])
    /\ \A k \in DOMAIN table_column_map : table_column_map[k] # << >>

\* C13: every column stored in the group of key k has table_name = k; a
\* column that names no listed table, or no table at all, is in no group,
\* and the only errors after the two queries are errors of the file system.
C13_OrphansAreDropped ==
    Normalized =>
        /\ \A k \in DOMAIN table_column_map :
             \A j \in 1..Len(table_column_map[k]) :
                table_column_map[k][j].table_name = Some(k)
        /\ \A i \in 1..Len(tables_columns) :
             ~Owned(tables_columns[i]) =>
                \A k \in DOMAIN table_column_map : ~InGroup(tables_columns[i], k)
        /\ (pc = "done" /\ result = "Err") =>
             (~dir_created \/ DOMAIN table_map \subseteq Emitted)

C13_Witness ==
    /\ Normalized
    /\ \E i \in 1..Len(tables_columns) : tables_columns[i].table_name = None
    /\ \E i \in 1..Len(tables_columns) :
         /\ tables_columns[i].table_name # None
         /\ ~Owned(tables_columns[i])
    /\ pc = "done"
    /\ result = "Ok"
    /\ Len(files) = Len(tables) + 1

\* the positions of the column list that name table k
PositionsOf(k) == { i \in 1..Len(tables_columns) : tables_columns[i].table_name = Some(k) }
\* the j-th smallest member of a set of positions
Nth(ps, j) == CHOOSE i \in ps : Cardinality({ m \in ps : m <= i }) = j

\* C14: the group of key k is the subsequence of the column list whose
\* table_name is k: as many entries as there are such positions, the j-th
\* entry being the column at the j-th such position.
C14_GroupsKeepTheOrder ==
    Normalized =>
        \A k \in DOMAIN table_column_map :
            /\ Len(table_column_map[k]) = Cardinality(PositionsOf(k))
            /\ \A j \in 1..Len(table_column_map[k]) :
                 table_column_map[k][j] = tables_columns[Nth(PositionsOf(k), j)]

C14_Witness ==
    /\ Normalized
    /\ Len(tables_columns) = 3
    /\ \E k \in DOMAIN table_column_map :
         /\ Len(table_column_map[k]) = 2
         /\ table_column_map[k][1] # table_column_map[k][2]
         /\ tables_columns[2].table_name # Some(k)

\* C15: with a non-empty column list, a table that owns none of the columns
\* still has its entry in the column-group map, the empty sequence, and the
\* context of its file has the group and has_columns = false.
C15_EmptyGroupsAreKept ==
    (Normalized /\ tables_columns # << >>) =>
        \A n \in TableNames :
            /\ n \in DOMAIN table_column_map
            /\ PositionsOf(n) = {} =>
                 /\ table_column_map[n] = << >>
                 /\ \A i \in 1..Len(files) :
                      files[i].table = n =>
                        /\ files[i].has_group
                        /\ ~files[i].has_columns
                        /\ files[i].column_num = 0

C15_Witness ==
    /\ Normalized
    /\ tables_columns # << >>
    /\ \E i \in 1..Len(files) :
         /\ files[i].table \in TableNames
         /\ PositionsOf(files[i].table) = {}
         /\ files[i].has_group
         /\ ~files[i].has_columns

\* C16: when the two queries have succeeded and the table list is empty, or
\* the table list is not and the column list is, the next step ends the run
\* with Ok after printing the condition, without creating the directory or
\* writing a file, and nothing happens after the run has ended.
C16_NothingToGenerateIsSuccess ==
    [][ /\ (pc = "loaded" /\ (tables = << >> \/ tables_columns = << >>)) =>
             /\ pc' = "done"
             /\ result' = "Ok"
             /\ printed' = Append(printed, IF tables = << >>
                                           THEN <<"t","a","b","l","e","s"," ","i","s"," ","e","m","p","t","y">>
                                           ELSE <<"t","a","b","l","e"," ","c","o","l","u","m","n","s"," ","i","s"," ","e","m","p","t","y">>)
             /\ ~dir_created'
             /\ files' = << >>
        /\ pc = "done" =>
             /\ pc' = "done"
             /\ result' = result
             /\ dir_created' = dir_created
             /\ files' = files ]_vars

C16_Witness ==
    /\ pc = "done"
    /\ result = "Ok"
    /\ Len(tables) = 1
    /\ tables[1].name = <<"u","s","e","r","s">>
    /\ tables_columns = << >>
    /\ printed = << <<"t","a","b","l","e"," ","c","o","l","u","m","n","s"," ","i","s"," ","e","m","p","t","y">> >>
    /\ ~dir_created
    /\ files = << >>

NothingProduced ==
    /\ table_map = EmptyMap
    /\ table_column_map = EmptyMap
    /\ ~dir_created
    /\ files = << >>

\* C17: a failed connection ends the run with the error before any statement
\* is sent; a refused statement is the last statement sent and ends the run
\* with the error; in both cases no map is built and no file is written.
C17_FailFast ==
    /\ (pc # "connect" /\ ~connected) =>
         /\ pc = "done"
         /\ result = "Err"
         /\ queries = << >>
         /\ NothingProduced
    /\ \A i \in 1..Len(queries) :
         ~queries[i].ok =>
            /\ i = Len(queries)
            /\ pc = "done"
            /\ result = "Err"
            /\ NothingProduced

C17_Witness ==
    /\ pc = "done"
    /\ connected
    /\ Len(queries) = 2
    /\ queries[1].ok
    /\ queries[2].q = "columns"
    /\ ~queries[2].ok
    /\ tables # << >>
    /\ result = "Err"
    /\ NothingProduced

SqliteConversions == {"sqlite_from", "sqlite_from_ref"}

\* C18: the sqlite adapter splits BASE(n) into BASE and n before the type
\* table is consulted and carries n into max_length ("VARCHAR(50)": base
\* VARCHAR, String, 50); a text without the suffix ("INTEGER") is its own
\* base type and gets max_length 50.
C18_SqliteLengthIsCarried ==
    call.done =>
        /\ (call.fn = "sqlite_type" /\ call.arg = <<"V","A","R","C","H","A","R","(","5","0",")">>) =>
             call.ret = << <<"V","A","R","C","H","A","R">>, Some(50) >>
        /\ (call.fn = "sqlite_type" /\ call.arg = <<"I","N","T","E","G","E","R">>) =>
             call.ret = << <<"I","N","T","E","G","E","R">>, None >>
        /\ call.fn \in SqliteConversions =>
             LET parsed == sqlite_type(unwrap(call.arg.type))
             IN  /\ call.ret.field_type = Some(sqlite_to_rust(parsed[1]))
                 /\ call.ret.max_length
                      = (IF parsed[2] # None THEN parsed[2] ELSE Some(50))
        /\ (call.fn \in SqliteConversions /\ unwrap(call.arg.type) = <<"V","A","R","C","H","A","R","(","5","0",")">>) =>
             /\ call.ret.field_type = Some(<<"S","t","r","i","n","g">>)
             /\ call.ret.max_length = Some(50)
        /\ (call.fn \in SqliteConversions /\ unwrap(call.arg.type) = <<"I","N","T","E","G","E","R">>) =>
             /\ call.ret.field_type = Some(<<"i","3","2">>)
             /\ call.ret.max_length = Some(50)

\* the names of a group, each after the first preceded by a comma
CommaJoined(g) ==
    Flatten([i \in 1..Len(g) |->
                IF i = 1 THEN unwrap(g[i].name) ELSE <<",">> \o unwrap(g[i].name)])

\* C19: for every table file written, whichever adapter produced the rows,
\* the context is derived from the table's column group alone: has_columns
\* iff the group is non-empty, column_num its length, columns the group and
\* column_names its column names joined by "," in group order.
C19_DerivedValuesFollowTheGroup ==
    \A i \in 1..Len(files) :
        files[i].table \in DOMAIN table_column_map =>
            LET g == table_column_map[files[i].table]
            IN  /\ files[i].has_columns = (g # << >>)
                /\ files[i].column_num = Len(g)
                /\ files[i].columns = g
                /\ files[i].column_names = CommaJoined(g)

C19_Witness ==
    /\ driver = "Sqlite"
    /\ \E i \in 1..Len(files) :
         /\ files[i].table = <<"o","r","d","e","r","s">>
         /\ files[i].has_columns
         /\ files[i].column_num = 2
         /\ files[i].column_names = <<"i","d",",","r","#","t","y","p","e">>
    /\ \E i \in 1..Len(files) :
         /\ files[i].table = <<"u","s","e","r","s">>
         /\ ~files[i].has_columns
         /\ files[i].column_names = << >>

\* the table files written so far, in the order of writing
TableFiles == LET of_table(f) == f.table # << >> IN SelectSeq(files, of_table)

\* C20: the per-table files are written in the order in which the catalog
\* returned the tables, so that two runs over the same rows write them in
\* the same sequence.
C20_EmissionFollowsCatalogOrder ==
    /\ Len(TableFiles) <= Len(tables)
    /\ \A i \in 1..Len(TableFiles) : TableFiles[i].table = tables[i].name

\* the stages of one run, as the state shows them
StagesInOrder ==
    /\ queries # << >> => connected
    /\ \A i \in 1..Len(queries) :
         /\ queries[i].q = "tables" <=> i = 1
         /\ i > 1 => queries[1].ok
    /\ (Normalized \/ dir_created \/ files # << >>) =>
         /\ Len(queries) >= 2
         /\ \A i \in 1..Len(queries) : queries[i].ok
         /\ tables # << >>
         /\ tables_columns # << >>
    /\ \A i \in 1..Len(files) :
         /\ files[i].table # << >> => files[i].table \in DOMAIN table_map
         /\ \A j \in 1..Len(files) : files[i].table = files[j].table => i = j
         /\ files[i].table = << >> =>
              /\ i = Len(files)
              /\ { files[j].table : j \in 1..(i - 1) } = DOMAIN table_map
              /\ i - 1 = Cardinality(DOMAIN table_map)

\* C21: one connection is acquired, before every query; the table query is
\* answered before the column query is sent; the maps, the directory and
\* the files come only after both queries succeeded with rows; mod.rs is
\* written last, after exactly one file for each key of the table map.
C21_StagesRunInOrder ==
    /\ []StagesInOrder
    /\ [][ /\ connected => connected'
           /\ (connected' /\ ~connected) => (pc = "connect" /\ queries = << >>)
           /\ pc' = "connect" => pc = "connect"
           /\ tables' # tables => (pc = "tables" /\ tables_columns = << >>)
           /\ tables_columns' # tables_columns => (pc = "columns" /\ queries[1].ok)
           /\ table_map' # table_map => pc = "loaded" ]_vars

C21_Witness ==
    /\ pc = "done"
    /\ result = "Ok"
    /\ connected
    /\ Len(queries) = 2
    /\ Cardinality(DOMAIN table_map) = 2
    /\ Len(files) = 3
    /\ files[3].table = << >>

\* the columns the catalog records for the table named n, as sqlite type texts
RecordedTypes(n) ==
    LET t == catalog[CHOOSE i \in 1..Len(catalog) : catalog[i].name = n]
    IN  [j \in 1..Len(t.columns) |-> t.columns[j].native.Sqlite]

\* the type texts of the columns the run attributes to the table named n
AttributedTypes(n) ==
    LET mine(c) == c.table_name = Some(n)
        raw(c) == unwrap(c.column_type)
    IN  MapSeq(SelectSeq(tables_columns, mine), raw)

\* C22: the sqlite column listing sends one structural query for each
\* introspected table, in table order, each naming its table, so that the
\* columns attributed to a table are the columns the catalog records for it
\* and tables with different columns get different groups.
C22_SqliteAsksEachTable ==
    (driver = "Sqlite" /\ ColumnsListed) =>
        LET follow_up(s) == s.q = "table_info"
            pragmas == SelectSeq(queries, follow_up)
        IN  /\ Len(pragmas) = Len(tables)
            /\ \A i \in 1..Len(pragmas) : pragmas[i].arg = tables[i].name
            /\ \A i \in 1..Len(tables) :
                 AttributedTypes(tables[i].name) = RecordedTypes(tables[i].name)
            /\ \A i, j \in 1..Len(tables) :
                 RecordedTypes(tables[i].name) # RecordedTypes(tables[j].name)
                   => AttributedTypes(tables[i].name) # AttributedTypes(tables[j].name)

\* C23: in the mysql and postgres conversions a column whose field_type is
\* not temporal keeps the is_nullable the catalog reported, and in every
\* conversion table_name, default, column_type and field_type are what the
\* row and the dialect's type table give, with or without the override.
C23_OverrideTouchesIsNullableOnly ==
    call.done =>
        /\ call.fn = "mysql_from" =>
             /\ unwrap(call.ret.field_type) \notin TemporalTypes =>
                  call.ret.is_nullable = call.arg.is_nullable
             /\ call.ret.table_name = call.arg.table_name
             /\ call.ret.default = call.arg.column_default
             /\ call.ret.column_type = call.arg.column_type
             /\ call.ret.field_type
                  = Some(mysql_match(to_uppercase(unwrap(call.arg.column_type))))
        /\ call.fn = "postgres_from" =>
             /\ unwrap(call.ret.field_type) \notin TemporalTypes =>
                  call.ret.is_nullable = Some(call.arg.is_nullable)
             /\ call.ret.table_name = Some(call.arg.table_name)
             /\ call.ret.default = call.arg.column_default
             /\ call.ret.column_type = Some(call.arg.data_type)
             /\ call.ret.field_type = Some(pg_match(to_uppercase(call.arg.data_type)))
        /\ call.fn \in SqliteConversions =>
             /\ call.ret.table_name = None
             /\ call.ret.default = call.arg.dflt_value
             /\ call.ret.column_type = call.arg.type
             /\ call.ret.field_type
                  = Some(sqlite_match(to_uppercase(sqlite_type(unwrap(call.arg.type))[1])))

C23_Witness ==
    /\ call.done
    /\ call.fn = "mysql_from"
    /\ call.arg.column_type = Some(<<"i","n","t">>)
    /\ call.arg.is_nullable = Some(<<"N","O">>)
    /\ call.arg.column_default = Some(<<"0">>)
    /\ call.ret.field_type = Some(<<"i","3","2">>)
    /\ call.ret.is_nullable = Some(<<"N","O">>)
    /\ call.ret.default = Some(<<"0">>)

====
